---- MODULE Spec2Model ----
(***************************************************************************)
(* Model of the Dynamic Company Services Chatbot.                          *)
(*                                                                         *)
(*   src/app.py                      extract_query_entities, the Streamlit *)
(*                                   script run for one chat input         *)
(*   src/external_info_retriever.py  get_company_web_content               *)
(*   src/llm_rag_service.py          get_rag_answer                        *)
(*                                                                         *)
(* Texts the program only compares, stores or copies are TLA+ strings.     *)
(* The text returned by the extraction chain is a sequence of tokens, so   *)
(* that strip(), replace() and json.loads() are computed, not assumed.     *)
(* The external capabilities (extraction completion, search provider,      *)
(* embedding, vector store ranking, synthesis completion) are inputs of    *)
(* the actions: every outcome they can produce is enumerated with \E.      *)
(***************************************************************************)
EXTENDS Integers, Sequences, FiniteSets, TLC

VARIABLES
    GOOGLE_API_KEY,            \* TRUE iff the env var is set (app.py:25, llm_rag_service.py:22)
    GOOGLE_CSE_ID,             \* TRUE iff the env var is set (external_info_retriever.py:18)
    GOOGLE_API_KEY_FOR_SEARCH, \* TRUE iff the env var is set (external_info_retriever.py:19)
    sharedSystem,              \* TRUE iff the installed chromadb keeps one in-memory
                               \* system per process (every settings-equal Client() sees
                               \* the same collections)
    messages,                  \* st.session_state.messages
    collection,                \* the entries of the Chroma collection "langchain" held by
                               \* the process-wide in-memory system (used iff sharedSystem)
    stores,                    \* number of Chroma.from_documents calls that added entries
    turns,                     \* number of chat inputs accepted so far
    calls,                     \* number of direct calls of get_rag_answer so far
    run                        \* trace of the last operation: its inputs, the calls it
                               \* made, what it showed and what it returned

vars == <<GOOGLE_API_KEY, GOOGLE_CSE_ID, GOOGLE_API_KEY_FOR_SEARCH, sharedSystem,
          messages, collection, stores, turns, calls, run>>

config == <<GOOGLE_API_KEY, GOOGLE_CSE_ID, GOOGLE_API_KEY_FOR_SEARCH, sharedSystem>>

-----------------------------------------------------------------------------
(* Bounds of the model.                                                    *)

MaxTurns == 2      \* chat inputs per session
MaxItems == 2      \* items in one provider response
MaxCalls == 2      \* direct calls of get_rag_answer in one process
MaxTrips == 2      \* retriever-to-synthesizer round trips in one process

-----------------------------------------------------------------------------
(* Python values: None / a missing dict key / a str.                       *)

None    == [tag |-> "none", val |-> ""]
Missing == [tag |-> "missing", val |-> ""]
Str(s)  == [tag |-> "str", val |-> s]

\* bool(v) for v None or a str: `if company_name`, `company_name and service_keywords`
Truthy(v) == v.tag = "str" /\ v.val # ""

\* dict.get(key): None when the key is missing
Get(v) == IF v.tag = "missing" THEN None ELSE v

\* dict.get(key, default)
GetOr(v, default) == IF v.tag = "missing" THEN Str(default) ELSE v

\* f"{v}" for v None or a str
Fmt(v) == IF v.tag = "str" THEN v.val ELSE "None"

Min(a, b) == IF a < b THEN a ELSE b

\* Exception classes.  Every class a collaborator raises here derives from
\* Exception (HttpError, json.JSONDecodeError, AttributeError, ...).
IsInstance(exc, cls) == cls = exc \/ cls = "Exception"

\* the first except clause of `handlers` that matches, 0 when none does
HandlerFor(handlers, exc) ==
    IF \E i \in 1..Len(handlers) : IsInstance(exc, handlers[i])
    THEN CHOOSE i \in 1..Len(handlers) :
            /\ IsInstance(exc, handlers[i])
            /\ \A j \in 1..(i - 1) : ~IsInstance(exc, handlers[j])
    ELSE 0


RECURSIVE SeqToSet(_)
SeqToSet(s) == IF s = <<>> THEN {} ELSE {Head(s)} \cup SeqToSet(Tail(s))

-----------------------------------------------------------------------------
(* The fixed user-facing strings.                                          *)

GreetingReply == "Hello there! How can I assist you with company services today?"

ChitchatReply ==
    "You're welcome! Is there anything specific about company services you'd like to know?"

NoInfoReply ==
    "I couldn't find specific information for that company and service on the web. Could you please rephrase or provide more details?"

ClarifyHead == "I can look up information about "

ClarifyTail == ". What specific services or aspects are you interested in?"

\* Mutant of ClarifyReply: the company is not named.
ClarifyReplyAnonymous(company_name) == ClarifyHead \o "that company" \o ClarifyTail

ClarifyReply(company_name) == ClarifyHead \o Fmt(company_name) \o ClarifyTail

NotIdentifiedReply ==
    "I couldn't identify a specific company or service in your query. Please ask about a company's services (e.g., 'What are Google's cloud services?')."

NotConfiguredReply ==
    "I'm sorry, my core AI capabilities are not configured. Please check the API key."

NoDocumentsReply ==
    "I couldn't find enough relevant information on the web to answer that specific query. Please try rephrasing or asking about a different company/service."

NoAnswerReply == "I couldn't generate an answer based on the retrieved information."

\* Mutant of InternalErrorReply: the handler returns the text it prints.
InternalErrorReplyLeaks == "An error occurred during RAG processing: Exception"

InternalErrorReply ==
    "I'm sorry, I encountered an internal error while trying to process your request."

-----------------------------------------------------------------------------
(* The text returned by the extraction chain, as a sequence of tokens.     *)
(*   ws      a run of whitespace                                           *)
(*   fo      the opening fence  ```json\n                                   *)
(*   fc      the closing fence  \n```                                       *)
(*   txt     any other text that is not JSON (prose, a fence with no       *)
(*           newline, a fence with another language tag)                   *)
(*   object  the text of a JSON object; its two keys of interest           *)
(*   array   the text of a JSON value that is not an object                *)

Tok(t) == [t |-> t, company_name |-> Missing, service_keywords |-> Missing]
WS  == Tok("ws")
FO  == Tok("fo")
FC  == Tok("fc")
TXT == Tok("txt")
ARR == Tok("array")
Obj(c, k) == [t |-> "object", company_name |-> c, service_keywords |-> k]

\* str.strip(): whitespace goes from both ends; the newline that ends an opening
\* fence or starts a closing fence is whitespace too, so a fence at the very end
\* (start) of the text loses it and is no longer the text replace() looks for.
RECURSIVE LStrip(_)
LStrip(s) ==
    IF s = <<>> THEN <<>>
    ELSE IF Head(s).t = "ws" THEN LStrip(Tail(s))
    ELSE IF Head(s).t = "fc" THEN <<TXT>> \o Tail(s)
    ELSE s

RECURSIVE RStrip(_)
RStrip(s) ==
    IF s = <<>> THEN <<>>
    ELSE LET last == s[Len(s)]
             init == SubSeq(s, 1, Len(s) - 1)
         IN  IF last.t = "ws" THEN RStrip(init)
             ELSE IF last.t = "fo" THEN init \o <<TXT>>
             ELSE s

Strip(s) == RStrip(LStrip(s))

\* str.replace(fence, ""): every occurrence of that fence goes
Replace(s, fence) == SelectSeq(s, LAMBDA tok : tok.t # fence)

\* json.loads tolerates whitespace around the one JSON value it decodes
RECURSIVE LTrimWs(_)
LTrimWs(s) == IF s # <<>> /\ Head(s).t = "ws" THEN LTrimWs(Tail(s)) ELSE s

RECURSIVE RTrimWs(_)
RTrimWs(s) ==
    IF s # <<>> /\ s[Len(s)].t = "ws" THEN RTrimWs(SubSeq(s, 1, Len(s) - 1)) ELSE s

\* json.loads(json_str): decoded iff the text is exactly one JSON value
Loads(json_str) ==
    LET core == RTrimWs(LTrimWs(json_str))
    IN  IF Len(core) = 1 /\ core[1].t \in {"object", "array"}
        THEN [ok |-> TRUE, value |-> core[1]]
        ELSE [ok |-> FALSE, value |-> TXT]

\* What Streamlit shows: one entry per st.* call that renders something.
Shown(widget, text, raw, err) ==
    [widget |-> widget, text |-> text, raw |-> raw, err |-> err]

Entities(raised, c, k, shown) ==
    [raised |-> raised, company_name |-> c, service_keywords |-> k, shown |-> shown]

\* the except clauses of extract_query_entities, in order (app.py:68, app.py:71)
ExtractHandlers == <<"JSONDecodeError", "Exception">>

\* app.py:61-67, the try block.  x is what extraction_chain.ainvoke does: it
\* returns a text or raises.  exc is the class raised inside the block ("" when
\* it returns); assigned tells whether json_str was bound when it was raised.
TryExtract(x) ==
    IF x.kind = "raise"
    THEN [exc |-> x.exc, assigned |-> FALSE, json_str |-> <<>>,
          company_name |-> None, service_keywords |-> None]
    ELSE LET json_str == Replace(Replace(Strip(x.text), "fo"), "fc")
             decoded  == Loads(json_str)
         IN  IF ~decoded.ok
             THEN [exc |-> "JSONDecodeError", assigned |-> TRUE, json_str |-> json_str,
                   company_name |-> None, service_keywords |-> None]
             ELSE IF decoded.value.t # "object"
             THEN \* entities.get on a list, a str, a number
                  [exc |-> "AttributeError", assigned |-> TRUE, json_str |-> json_str,
                   company_name |-> None, service_keywords |-> None]
             ELSE [exc |-> "", assigned |-> TRUE, json_str |-> json_str,
                   company_name |-> Get(decoded.value.company_name),
                   service_keywords |-> Get(decoded.value.service_keywords)]

\* app.py:56-73.  The handler is chosen by the class of the exception, wherever
\* in the block it was raised: a json.JSONDecodeError raised by ainvoke itself
\* enters the first handler with json_str unbound, and formatting the warning
\* raises UnboundLocalError out of the function.
extract_query_entities(x) ==
    LET t == TryExtract(x)
        h == HandlerFor(ExtractHandlers, t.exc)
    IN  IF t.exc = ""
        THEN Entities(FALSE, t.company_name, t.service_keywords, <<>>)
        ELSE IF h = 0
        THEN Entities(TRUE, None, None, <<>>)
        ELSE IF ExtractHandlers[h] = "JSONDecodeError"
        THEN IF t.assigned
             THEN Entities(FALSE, None, None,
                           <<Shown("warning", "Could not parse entity extraction response: ",
                                   t.json_str, t.exc)>>)
             ELSE Entities(TRUE, None, None, <<>>)
        ELSE Entities(FALSE, None, None,
                      <<Shown("error", "Error during entity extraction: ", <<>>, t.exc)>>)

-----------------------------------------------------------------------------
(* external_info_retriever.get_company_web_content                         *)

NUM_RESULTS == 5     \* num=5 in service.cse().list(...)

Qualifier == " services reviews official site"

\* f"{company_name} {service_keywords} services reviews official site"
SearchQuery(company_name, service_keywords) ==
    Fmt(company_name) \o " " \o Fmt(service_keywords) \o Qualifier

\* One provider result item; a field is a str or is missing from the dict.
Item(title, snippet, link) == [title |-> title, snippet |-> snippet, link |-> link]

\* Mutant of MakeDocument: the title is stored as the source.
MakeDocumentTitleAsSource(item, company_name, search_query) ==
    [page_content |-> GetOr(item.snippet, "No Snippet").val,
     source       |-> GetOr(item.title, "No Title").val,
     title        |-> GetOr(item.title, "No Title").val,
     company      |-> company_name,
     search_query |-> search_query]

\* Document(page_content=snippet, metadata={source, title, company, search_query}).
\* "company" is the argument itself, not its formatting.
MakeDocument(item, company_name, search_query) ==
    [page_content |-> GetOr(item.snippet, "No Snippet").val,
     source       |-> GetOr(item.link, "No Link").val,
     title        |-> GetOr(item.title, "No Title").val,
     company      |-> company_name,
     search_query |-> search_query]

\* the for loop over response['items']
MapItems(items, company_name, search_query) ==
    [i \in 1..Len(items) |-> MakeDocument(items[i], company_name, search_query)]

\* What the search provider does with one call.
\*   build_raises   build(...) raises: no request is sent
\*   HttpError      .execute() raises googleapiclient.errors.HttpError
\*   Exception      .execute() raises anything else
\*   response       .execute() returns a dict, with or without the key 'items'
Provider(kind, has_items, items) == [kind |-> kind, has_items |-> has_items, items |-> items]

\* `not GOOGLE_CSE_ID or not GOOGLE_API_KEY_FOR_SEARCH`
SearchUnconfigured(cse_id, api_key) == ~cse_id \/ ~api_key

\* Mutant of RetrieverHandlers: only the HttpError clause.
RetrieverHandlersHttpOnly == <<"HttpError">>

\* the except clauses of get_company_web_content, in order
\* (external_info_retriever.py:70, external_info_retriever.py:73)
RetrieverHandlers == <<"HttpError", "Exception">>

\* the class a faulting provider call raises
ProviderExc(provider) == IF provider.kind = "build_raises" THEN "Exception" ELSE provider.kind

\* external_info_retriever.py:27-75.  Returns the documents, the search requests
\* that were sent and whether an exception left the function.
get_company_web_content(company_name, service_keywords, cse_id, api_key, provider) ==
    IF SearchUnconfigured(cse_id, api_key)
    THEN [documents |-> <<>>, requests |-> <<>>, raised |-> FALSE]
    ELSE LET search_query == SearchQuery(company_name, service_keywords)
             request == [q |-> search_query, num |-> NUM_RESULTS]
         IN  IF provider.kind # "response"
             THEN [documents |-> <<>>,
                   requests  |-> IF provider.kind = "build_raises" THEN <<>> ELSE <<request>>,
                   raised    |-> HandlerFor(RetrieverHandlers, ProviderExc(provider)) = 0]
             ELSE [documents |-> IF provider.has_items
                                 THEN MapItems(provider.items, company_name, search_query)
                                 ELSE <<>>,
                   requests  |-> <<request>>,
                   raised    |-> FALSE]

-----------------------------------------------------------------------------
(* llm_rag_service.get_rag_answer                                          *)

TOP_K == 3           \* search_kwargs={"k": 3}

\* The statements of the try block that reach outside the function, in order.
\*   embeddings_init  GoogleGenerativeAIEmbeddings(...)
\*   from_documents   Chroma.from_documents: embeds the documents, adds them
\*   llm_init         ChatGoogleGenerativeAI(...)
\*   chain            as_retriever, the prompt, the two chain constructors
\*   retrieve         retrieval_chain.invoke: embeds the question, ranks
\*   complete         retrieval_chain.invoke: the completion call
RagSteps == <<"embeddings_init", "from_documents", "llm_init", "chain", "retrieve", "complete">>

StepNo(step) == CHOOSE i \in 1..Len(RagSteps) : RagSteps[i] = step

\* the steps run when the fault (or "none") is raised at `fault`
StepsRun(fault) == IF fault = "none" THEN RagSteps ELSE SubSeq(RagSteps, 1, StepNo(fault))

\* step `step` ran to its end
Passed(fault, step) == fault = "none" \/ StepNo(step) < StepNo(fault)

\* the entries Chroma.from_documents adds: one per document, under fresh ids
NewEntries(external_documents, store) ==
    [i \in 1..Len(external_documents) |-> [store |-> store, pos |-> i, doc |-> external_documents[i]]]

\* Chroma.from_documents(documents=external_documents, embedding=embeddings), with
\* no collection name, no client and no persist directory: the collection is
\* get_or_create_collection("langchain") of chromadb.Client(Settings()).  Where
\* chromadb keeps one in-memory system per process that collection is the one the
\* earlier calls filled; otherwise it is new.
FromDocuments(external_documents, shared, coll, store) ==
    IF shared THEN coll \o NewEntries(external_documents, store)
    ELSE NewEntries(external_documents, store)

\* the sets of positions a top-k query over n entries can return
TopKChoices(n) == {S \in SUBSET (1..n) : Cardinality(S) = Min(TOP_K, n)}

\* the subsets of S that have k elements
RECURSIVE KSubsets(_, _)
KSubsets(S, k) ==
    IF k = 0 THEN {{}}
    ELSE IF S = {} THEN {}
    ELSE LET x == CHOOSE y \in S : TRUE
         IN  KSubsets(S \ {x}, k) \cup {T \cup {x} : T \in KSubsets(S \ {x}, k - 1)}

\* Mutant of EmbeddedText: the title is embedded in place of the content.
EmbeddedTextTitle(doc) == doc.title

\* the text of a document that Chroma.from_documents embeds: its page_content
\* (the metadata, the title with it, is stored beside the vector, not embedded)
EmbeddedText(doc) == doc.page_content

\* the entries of the index whose embedded text is the query text
ExactMatches(query, index) ==
    {i \in 1..Len(index) : EmbeddedText(index[i].doc) = query}

\* The top-k query under an embedding function for which a text is most similar
\* to itself and less similar to any other text: the exact matches come first,
\* the order of the other entries and of ties is the embedding's and the
\* library's.
StubTopK(query, index) ==
    LET exact == ExactMatches(query, index)
        other == (1..Len(index)) \ exact
        k     == Min(TOP_K, Len(index))
    IN  IF Cardinality(exact) >= k THEN KSubsets(exact, k)
        ELSE {exact \cup S : S \in KSubsets(other, k - Cardinality(exact))}

\* Mutant of RagUnconfigured: the API key guard is left out.
RagUnconfiguredSkipped(api_key) == FALSE

\* `not GOOGLE_API_KEY`
RagUnconfigured(api_key) == ~api_key

\* Mutant of RagHandlers: the clause names one class of fault only.
RagHandlersNarrow == <<"HttpError">>

\* the except clause of get_rag_answer (llm_rag_service.py:95)
RagHandlers == <<"Exception">>

\* llm_rag_service.py:28-98.  env is what the capabilities do in this call:
\* fault (the step that raises, or "none") and exc (the class it raises), pick
\* (the positions the ranking returns), has_answer and answer (the response dict
\* of the chain).
get_rag_answer(user_question, external_documents, chat_history, api_key, shared, coll, nstores, env) ==
    LET idle == [steps |-> <<>>, index |-> <<>>, context |-> {},
                 collection |-> coll, stores |-> nstores, raised |-> FALSE]
    IN
    IF RagUnconfigured(api_key)
    THEN idle @@ [result |-> NotConfiguredReply]
    ELSE IF external_documents = <<>>
    THEN idle @@ [result |-> NoDocumentsReply]
    ELSE LET stored == Passed(env.fault, "from_documents")
             index  == IF stored
                       THEN FromDocuments(external_documents, shared, coll, nstores + 1)
                       ELSE <<>>
             ranked == Passed(env.fault, "retrieve")
             caught == HandlerFor(RagHandlers, env.exc) # 0
         IN  [steps      |-> StepsRun(env.fault),
              index      |-> index,
              context    |-> IF ranked THEN {index[i] : i \in env.pick} ELSE {},
              collection |-> IF stored /\ shared THEN index ELSE coll,
              stores     |-> IF stored THEN nstores + 1 ELSE nstores,
              raised     |-> env.fault # "none" /\ ~caught,
              result     |-> IF env.fault # "none"
                             THEN IF caught THEN InternalErrorReply ELSE ""
                             ELSE IF env.has_answer THEN env.answer
                             ELSE NoAnswerReply]

-----------------------------------------------------------------------------
(* app.py: the script run for one chat input                               *)

\* get_langchain_chat_history (app.py:91-101)
LangchainMessage(msg) ==
    [type |-> IF msg.role = "user" THEN "human" ELSE "ai", content |-> msg.content]

get_langchain_chat_history(msgs) ==
    LET kept == SelectSeq(msgs, LAMBDA m : m.role \in {"user", "assistant"})
    IN  [i \in 1..Len(kept) |-> LangchainMessage(kept[i])]

\* Mutant of Route: a marker in either field selects the fixed reply.
RouteMarkerEither(company_name, service_keywords) ==
    IF company_name = Str("GREETING") \/ service_keywords = Str("GREETING") THEN "greeting"
    ELSE IF company_name = Str("CHITCHAT") \/ service_keywords = Str("CHITCHAT") THEN "chitchat"
    ELSE IF Truthy(company_name) /\ Truthy(service_keywords) THEN "rag"
    ELSE IF Truthy(company_name) THEN "clarify"
    ELSE "unidentified"

\* Mutant of Route: the truthiness test is made before the marker tests.
RouteTruthyFirst(company_name, service_keywords) ==
    IF Truthy(company_name) /\ Truthy(service_keywords) THEN "rag"
    ELSE IF company_name = Str("GREETING") /\ service_keywords = Str("GREETING") THEN "greeting"
    ELSE IF company_name = Str("CHITCHAT") /\ service_keywords = Str("CHITCHAT") THEN "chitchat"
    ELSE IF Truthy(company_name) THEN "clarify"
    ELSE "unidentified"

\* the if / elif chain of app.py:120-145
Route(company_name, service_keywords) ==
    IF company_name = Str("GREETING") /\ service_keywords = Str("GREETING") THEN "greeting"
    ELSE IF company_name = Str("CHITCHAT") /\ service_keywords = Str("CHITCHAT") THEN "chitchat"
    ELSE IF Truthy(company_name) /\ Truthy(service_keywords) THEN "rag"
    ELSE IF Truthy(company_name) THEN "clarify"
    ELSE "unidentified"

\* llm_response of the branches that call nothing
FixedResponse(route, company_name) ==
    CASE route = "greeting" -> GreetingReply
      [] route = "chitchat" -> ChitchatReply
      [] route = "clarify"  -> ClarifyReply(company_name)
      [] OTHER              -> NotIdentifiedReply

UserMessage(prompt) == [role |-> "user", content |-> prompt]
AssistantMessage(llm_response) == [role |-> "assistant", content |-> llm_response]

\* st.info / st.success / st.markdown of the script
SearchingInfo(company_name, service_keywords) ==
    Shown("info", "Searching for: Company='" \o Fmt(company_name) \o "', Services='"
                  \o Fmt(service_keywords) \o "'", <<>>, "")
FoundSuccess(external_documents) ==
    Shown("success", "Found " \o ToString(Len(external_documents))
                     \o " relevant snippets. Generating answer...", <<>>, "")
Markdown(text) == Shown("markdown", text, <<>>, "")
\* Streamlit's rendering of an exception that leaves the script
Uncaught(err) == Shown("exception", "", <<>>, err)

-----------------------------------------------------------------------------
(* The trace of one operation.                                             *)

NoExtraction == [kind |-> "none", text |-> <<>>, exc |-> ""]
NoProvider   == Provider("none", FALSE, <<>>)

\*   op                  "turn", "get_rag_answer", "get_company_web_content"
\*   prompt              the chat input / the question of the call
\*   extraction          what extraction_chain.ainvoke did
\*   extracted           extract_query_entities returned
\*   company_name, service_keywords   what it returned
\*   retriever_calls     the calls of get_company_web_content, with their arguments
\*   provider            what the search provider did, where it was reached
\*   requests            the search requests sent
\*   external_documents  what the retriever returned / the documents of the call
\*   rag_calls           the calls of get_rag_answer, with their arguments
\*   fault               the step of get_rag_answer that raised, "none", or "" (no try)
\*   steps               the steps of get_rag_answer that ran
\*   index, context      the entries of the vector store queried, the top-k chosen
\*   answer              what get_rag_answer returned
\*   result              llm_response of the turn / the return value of the call
\*   display             what was rendered, in order
\*   completed           the operation ran to its end
\*   raised              an exception left the operation
NoRun ==
    [op |-> "none", prompt |-> "", extraction |-> NoExtraction, extracted |-> FALSE,
     company_name |-> None, service_keywords |-> None,
     retriever_calls |-> <<>>, provider |-> NoProvider, requests |-> <<>>,
     external_documents |-> <<>>,
     rag_calls |-> <<>>, fault |-> "", steps |-> <<>>, index |-> <<>>, context |-> {},
     answer |-> "", result |-> "", display |-> <<>>, completed |-> FALSE, raised |-> FALSE]

-----------------------------------------------------------------------------
(* Inputs.                                                                 *)

Prompt == "What are Acme's widgets?"

\* the chat inputs of a session
Prompts == {Prompt}

\* the questions and histories of a direct call of get_rag_answer
Questions == {Prompt, "Hi there!"}
Histories == {<<>>, <<[type |-> "human", content |-> "Hi there!"],
                      [type |-> "ai", content |-> "Hello there!"]>>}

GREETING == Str("GREETING")
CHITCHAT == Str("CHITCHAT")
Acme     == Str("Acme")
widgets  == Str("widgets")

\* JSON objects the extraction completion may return: the pairs the prompt asks
\* for, and the pairs it does not (one marker only, two different markers, an
\* empty string, a key left out).
Objects ==
    {Obj(GREETING, GREETING), Obj(CHITCHAT, CHITCHAT), Obj(GREETING, CHITCHAT),
     Obj(GREETING, None), Obj(None, GREETING), Obj(CHITCHAT, Str("")),
     Obj(Acme, widgets), Obj(Acme, None), Obj(Acme, Str("")), Obj(Acme, Missing),
     Obj(Str(""), widgets), Obj(None, widgets), Obj(None, None),
     Obj(Missing, Missing), Obj(Str(""), Str(""))}

\* the objects also tried bare, padded and badly fenced
SampleObjects == {Obj(GREETING, GREETING), Obj(Acme, None)}

ExtractionTexts ==
    {<<FO, o, FC>> : o \in Objects}
    \cup {<<o>> : o \in SampleObjects}
    \cup {<<WS, FO, o, FC, WS>> : o \in SampleObjects}
    \cup {<<FO, o, FC, FO>> : o \in SampleObjects}
    \cup {<<TXT, o>> : o \in SampleObjects}
    \cup {<<>>, <<TXT>>, <<ARR>>, <<FO, ARR, FC>>}

ExtractionOutcomes ==
    {[kind |-> "text", text |-> t, exc |-> ""] : t \in ExtractionTexts}
    \cup {[kind |-> "raise", text |-> <<>>, exc |-> e] : e \in {"JSONDecodeError", "Exception"}}

FullItem  == Item(Str("Acme Widgets"), Str("Acme sells widgets."), Str("http://acme.example/widgets"))
BareItem  == Item(Missing, Missing, Missing)
Items     == {FullItem, BareItem}

\* every provider response of at most MaxItems items
ItemSeqs == UNION {[1..n -> Items] : n \in 0..MaxItems}

\* the provider responses tried in a chat turn
TurnItemSeqs == {<<>>, <<FullItem>>, <<FullItem, BareItem>>}

\* an item whose snippet is its title
EchoItem == Item(Str("Acme Widgets"), Str("Acme Widgets"), Str("http://acme.example/"))

\* the provider responses of a round trip: up to NUM_RESULTS items, with titles
\* that are and that are not the snippet of an item
RoundTripItemSeqs ==
    {<<FullItem, BareItem, EchoItem>>,
     <<EchoItem, BareItem, BareItem, BareItem>>,
     <<EchoItem, EchoItem, EchoItem, EchoItem, FullItem>>}

ProviderFaults == {Provider(k, FALSE, <<>>) : k \in {"build_raises", "HttpError", "Exception"}}

ProviderOutcomes(itemSeqs) ==
    ProviderFaults
    \cup {Provider("response", FALSE, <<>>)}
    \cup {Provider("response", TRUE, items) : items \in itemSeqs}

Answer == "Acme offers widgets."

RagEnv(fault, pick, has_answer) ==
    [fault |-> fault, exc |-> "Exception", pick |-> pick, has_answer |-> has_answer,
     answer |-> Answer]

\* the outcomes of the capabilities for a call whose index would hold n entries:
\* a fault at one of the steps, or none; the ranking, where it is reached; a
\* response dict with or without the key "answer"
RagEnvs(n) ==
    {RagEnv(f, {}, FALSE) : f \in {RagSteps[i] : i \in 1..StepNo("retrieve")}}
    \cup {RagEnv("complete", S, FALSE) : S \in TopKChoices(n)}
    \cup {RagEnv("none", S, h) : S \in TopKChoices(n), h \in BOOLEAN}

-----------------------------------------------------------------------------
(* Init and the actions.                                                   *)

Init ==
    /\ GOOGLE_API_KEY \in BOOLEAN
    /\ GOOGLE_CSE_ID \in BOOLEAN
    /\ GOOGLE_API_KEY_FOR_SEARCH \in BOOLEAN
    /\ sharedSystem \in BOOLEAN
    /\ messages = <<>>
    /\ collection = <<>>
    /\ stores = 0
    /\ turns = 0
    /\ calls = 0
    /\ run = NoRun

\* the number of entries the index of the next from_documents call holds
IndexSize(external_documents) ==
    (IF sharedSystem THEN Len(collection) ELSE 0) + Len(external_documents)

\* the provider is reached only past the credentials guard
\* (external_info_retriever.py:41-43); before it, its outcome is no input
ProvidersReached(itemSeqs) ==
    IF SearchUnconfigured(GOOGLE_CSE_ID, GOOGLE_API_KEY_FOR_SEARCH)
    THEN {NoProvider}
    ELSE ProviderOutcomes(itemSeqs)

\* the capabilities are reached only past the two guards (llm_rag_service.py:45-49)
RagEnvsReached(external_documents) ==
    IF RagUnconfigured(GOOGLE_API_KEY) \/ external_documents = <<>>
    THEN {RagEnv("", {}, FALSE)}
    ELSE RagEnvs(IndexSize(external_documents))

\* Mutant of HasDocuments: one document does not count.
HasDocumentsMany(external_documents) == Len(external_documents) > 1

\* `if external_documents:` (app.py:130)
HasDocuments(external_documents) == external_documents # <<>>

\* app.py:104-148, one chat input, run to the end of the script or to the
\* exception that leaves it.  app.py:27-29: without GOOGLE_API_KEY the script
\* stops before the chat input.
Turn ==
    /\ GOOGLE_API_KEY
    /\ turns < MaxTurns
    /\ turns' = turns + 1
    /\ UNCHANGED <<config, calls>>
    /\ \E prompt \in Prompts, x \in ExtractionOutcomes :
        LET msgs == Append(messages, UserMessage(prompt))
            current_langchain_chat_history == get_langchain_chat_history(msgs)
            e == extract_query_entities(x)
            route == Route(e.company_name, e.service_keywords)
            begun == [NoRun EXCEPT !.op = "turn", !.prompt = prompt,
                                   !.extraction = x,
                                   !.extracted = ~e.raised,
                                   !.company_name = e.company_name,
                                   !.service_keywords = e.service_keywords]
            head == <<Markdown(prompt)>> \o e.shown
        IN
        \/ \* an exception leaves extract_query_entities and the script
           /\ e.raised
           /\ messages' = msgs
           /\ run' = [begun EXCEPT !.display = head \o <<Uncaught("UnboundLocalError")>>,
                                   !.raised = TRUE]
           /\ UNCHANGED <<collection, stores>>
        \/ \* greeting, chit-chat, clarification, nothing identified
           /\ ~e.raised
           /\ route # "rag"
           /\ LET llm_response == FixedResponse(route, e.company_name)
              IN  /\ messages' = Append(msgs, AssistantMessage(llm_response))
                  /\ run' = [begun EXCEPT !.result = llm_response,
                                          !.display = head \o <<Markdown(llm_response)>>,
                                          !.completed = TRUE]
           /\ UNCHANGED <<collection, stores>>
        \/ \* company and service found: search, then synthesize
           /\ ~e.raised
           /\ route = "rag"
           /\ \E provider \in ProvidersReached(TurnItemSeqs) :
               LET found == get_company_web_content(e.company_name, e.service_keywords,
                                GOOGLE_CSE_ID, GOOGLE_API_KEY_FOR_SEARCH, provider)
                   external_documents == found.documents
                   searched == [begun EXCEPT
                                  !.retriever_calls = <<[company_name |-> e.company_name,
                                                         service_keywords |-> e.service_keywords]>>,
                                  !.provider = provider,
                                  !.requests = found.requests,
                                  !.external_documents = external_documents]
                   head2 == head \o <<SearchingInfo(e.company_name, e.service_keywords)>>
               IN
               \/ /\ found.raised
                  /\ messages' = msgs
                  /\ run' = [searched EXCEPT
                               !.display = head2 \o <<Uncaught(ProviderExc(provider))>>,
                               !.raised = TRUE]
                  /\ UNCHANGED <<collection, stores>>
               \/ /\ ~found.raised
                  /\ ~HasDocuments(external_documents)
                  /\ messages' = Append(msgs, AssistantMessage(NoInfoReply))
                  /\ run' = [searched EXCEPT !.result = NoInfoReply,
                                             !.display = head2 \o <<Markdown(NoInfoReply)>>,
                                             !.completed = TRUE]
                  /\ UNCHANGED <<collection, stores>>
               \/ /\ ~found.raised
                  /\ HasDocuments(external_documents)
                  /\ \E env \in RagEnvsReached(external_documents) :
                      LET rag == get_rag_answer(prompt, external_documents,
                                     current_langchain_chat_history, GOOGLE_API_KEY,
                                     sharedSystem, collection, stores, env)
                          llm_response == rag.result
                          called == [searched EXCEPT
                                       !.rag_calls = <<[user_question |-> prompt,
                                                        external_documents |-> external_documents,
                                                        chat_history |-> current_langchain_chat_history]>>,
                                       !.fault = env.fault,
                                       !.steps = rag.steps,
                                       !.index = rag.index,
                                       !.context = rag.context]
                          head3 == head2 \o <<FoundSuccess(external_documents)>>
                      IN  /\ collection' = rag.collection
                          /\ stores' = rag.stores
                          /\ IF rag.raised
                             THEN /\ messages' = msgs
                                  /\ run' = [called EXCEPT
                                               !.display = head3 \o <<Uncaught(env.exc)>>,
                                               !.raised = TRUE]
                             ELSE /\ messages' = Append(msgs, AssistantMessage(llm_response))
                                  /\ run' = [called EXCEPT
                                               !.answer = rag.result,
                                               !.result = llm_response,
                                               !.display = head3 \o <<Markdown(llm_response)>>,
                                               !.completed = TRUE]

\* the documents a caller may hand to get_rag_answer
DirectDocuments ==
    {MapItems(items, Acme, SearchQuery(Acme, widgets)) : items \in TurnItemSeqs}

\* A direct call of llm_rag_service.get_rag_answer (as the tests make it), in
\* any configuration.
RagCall ==
    /\ calls < MaxCalls
    /\ calls' = calls + 1
    /\ UNCHANGED <<config, messages, turns>>
    /\ \E user_question \in Questions, external_documents \in DirectDocuments,
          chat_history \in Histories :
        \E env \in RagEnvsReached(external_documents) :
            LET rag == get_rag_answer(user_question, external_documents, chat_history,
                           GOOGLE_API_KEY, sharedSystem, collection, stores, env)
            IN  /\ collection' = rag.collection
                /\ stores' = rag.stores
                /\ run' = [NoRun EXCEPT
                             !.op = "get_rag_answer",
                             !.prompt = user_question,
                             !.external_documents = external_documents,
                             !.rag_calls = <<[user_question |-> user_question,
                                              external_documents |-> external_documents,
                                              chat_history |-> chat_history]>>,
                             !.fault = env.fault,
                             !.steps = rag.steps,
                             !.index = rag.index,
                             !.context = rag.context,
                             !.answer = rag.result,
                             !.result = rag.result,
                             !.raised = rag.raised,
                             !.completed = ~rag.raised]

\* A direct call of external_info_retriever.get_company_web_content (as the tests
\* make it), in any configuration.
RetrieverCall ==
    /\ UNCHANGED <<config, messages, collection, stores, turns, calls>>
    /\ \E company_name \in {Acme, GREETING, None}, service_keywords \in {widgets, CHITCHAT},
          provider \in ProvidersReached(ItemSeqs) :
        LET found == get_company_web_content(company_name, service_keywords,
                         GOOGLE_CSE_ID, GOOGLE_API_KEY_FOR_SEARCH, provider)
        IN  run' = [NoRun EXCEPT
                      !.op = "get_company_web_content",
                      !.company_name = company_name,
                      !.service_keywords = service_keywords,
                      !.retriever_calls = <<[company_name |-> company_name,
                                             service_keywords |-> service_keywords]>>,
                      !.provider = provider,
                      !.requests = found.requests,
                      !.external_documents = found.documents,
                      !.raised = found.raised,
                      !.completed = ~found.raised]

\* the capabilities of a round trip: the stub embedding, a completion that answers
RoundTripEnvsReached(user_question, external_documents) ==
    IF RagUnconfigured(GOOGLE_API_KEY) \/ external_documents = <<>>
    THEN {RagEnv("", {}, FALSE)}
    ELSE {RagEnv("none", S, TRUE) :
            S \in StubTopK(user_question,
                           FromDocuments(external_documents, sharedSystem, collection,
                                         stores + 1))}

\* A round trip: get_company_web_content is called, and what it returns is handed
\* to get_rag_answer with the title of one of the documents as the question.
RoundTrip ==
    /\ calls < MaxTrips
    /\ calls' = calls + 1
    /\ UNCHANGED <<config, messages, turns>>
    /\ \E items \in RoundTripItemSeqs :
        LET provider == IF SearchUnconfigured(GOOGLE_CSE_ID, GOOGLE_API_KEY_FOR_SEARCH)
                        THEN NoProvider ELSE Provider("response", TRUE, items)
            found == get_company_web_content(Acme, widgets, GOOGLE_CSE_ID,
                         GOOGLE_API_KEY_FOR_SEARCH, provider)
            external_documents == found.documents
            searched == [NoRun EXCEPT
                           !.op = "round_trip",
                           !.company_name = Acme,
                           !.service_keywords = widgets,
                           !.retriever_calls = <<[company_name |-> Acme,
                                                  service_keywords |-> widgets]>>,
                           !.provider = provider,
                           !.requests = found.requests,
                           !.external_documents = external_documents]
        IN  IF external_documents = <<>>
            THEN /\ run' = [searched EXCEPT !.completed = TRUE]
                 /\ UNCHANGED <<collection, stores>>
            ELSE \E user_question \in {d.title : d \in SeqToSet(external_documents)} :
                     \E env \in RoundTripEnvsReached(user_question, external_documents) :
                     LET rag == get_rag_answer(user_question, external_documents, <<>>,
                                    GOOGLE_API_KEY, sharedSystem, collection, stores, env)
                     IN  /\ collection' = rag.collection
                         /\ stores' = rag.stores
                         /\ run' = [searched EXCEPT
                                      !.prompt = user_question,
                                      !.rag_calls = <<[user_question |-> user_question,
                                                       external_documents |-> external_documents,
                                                       chat_history |-> <<>>]>>,
                                      !.fault = env.fault,
                                      !.steps = rag.steps,
                                      !.index = rag.index,
                                      !.context = rag.context,
                                      !.answer = rag.result,
                                      !.result = rag.result,
                                      !.raised = rag.raised,
                                      !.completed = ~rag.raised]

Next == Turn

\* a chat session of the Streamlit app
Spec == Init /\ [][Next]_vars

\* get_rag_answer called directly
SpecRag == Init /\ [][RagCall]_vars

\* get_company_web_content called directly
SpecRetriever == Init /\ [][RetrieverCall]_vars

\* the retriever's documents handed to the synthesizer
SpecRoundTrip == Init /\ [][RoundTrip]_vars

-----------------------------------------------------------------------------
(* The claims.                                                             *)

\* neither the search call nor the synthesis call was made in the operation
NoSearchNoSynthesis ==
    /\ run.retriever_calls = <<>>
    /\ run.requests = <<>>
    /\ run.rag_calls = <<>>
    /\ run.steps = <<>>

\* the last entry of the history is the assistant's reply `text`
RepliedWith(text) ==
    /\ run.completed
    /\ run.result = text
    /\ messages # <<>>
    /\ messages[Len(messages)] = [role |-> "assistant", content |-> text]

\* the documents of the entries of an index, in order
IndexDocuments(index) == [i \in 1..Len(index) |-> index[i].doc]

\* C1: in every turn that builds a retrieval index, the index holds exactly the
\* documents passed to that call of get_rag_answer, none of them indexed by an
\* earlier call, and the top-k context is drawn from this call's entries only.
C1_IndexHoldsOnlyThisTurnsDocuments ==
    (run.op = "turn" /\ run.index # <<>>) =>
        /\ IndexDocuments(run.index) = run.rag_calls[1].external_documents
        /\ \A i \in 1..Len(run.index) : run.index[i].store = stores
        /\ \A c \in run.context : c.store = stores

\* Where every in-memory client has a system of its own, the index of a call is
\* the documents of that call.
IsolatedClientsKeepTurnsApart == ~sharedSystem => C1_IndexHoldsOnlyThisTurnsDocuments

\* C2: a turn whose extraction result is (GREETING, GREETING) replies exactly the
\* greeting, one whose result is (CHITCHAT, CHITCHAT) exactly the acknowledgement,
\* and in both neither get_company_web_content nor get_rag_answer is called.
C2_MarkerPairsGetFixedReply ==
    (run.op = "turn" /\ run.extracted) =>
        /\ (run.company_name = Str("GREETING") /\ run.service_keywords = Str("GREETING")) =>
              /\ RepliedWith("Hello there! How can I assist you with company services today?")
              /\ NoSearchNoSynthesis
        /\ (run.company_name = Str("CHITCHAT") /\ run.service_keywords = Str("CHITCHAT")) =>
              /\ RepliedWith("You're welcome! Is there anything specific about company services you'd like to know?")
              /\ NoSearchNoSynthesis

\* a greeting turn followed by a chit-chat turn
C2_Witness ==
    /\ run.op = "turn" /\ run.extracted /\ turns = 2
    /\ run.company_name = Str("CHITCHAT") /\ run.service_keywords = Str("CHITCHAT")
    /\ messages[2].content = "Hello there! How can I assist you with company services today?"
    /\ Len(messages) = 4

EmptyDocumentsCall ==
    /\ run.op = "get_rag_answer"
    /\ run.rag_calls[1].external_documents = <<>>

\* C3 as stated: a call of get_rag_answer with no documents returns the
\* "couldn't find enough relevant information" string whether or not the API key
\* is configured, and invokes neither embedding nor completion.
C3_EmptyDocuments_AnyConfiguration ==
    EmptyDocumentsCall =>
        /\ run.result = "I couldn't find enough relevant information on the web to answer that specific query. Please try rephrasing or asking about a different company/service."
        /\ run.steps = <<>>

\* C3 amended: with no documents neither embedding nor completion is invoked in
\* any configuration; the result is the "couldn't find enough relevant
\* information" string when the API key is configured, and the "core AI
\* capabilities are not configured" string when it is not (that guard is first).
C3_EmptyDocuments ==
    EmptyDocumentsCall =>
        /\ run.steps = <<>> /\ run.index = <<>> /\ ~run.raised
        /\ GOOGLE_API_KEY =>
              run.result = "I couldn't find enough relevant information on the web to answer that specific query. Please try rephrasing or asking about a different company/service."
        /\ ~GOOGLE_API_KEY =>
              run.result = "I'm sorry, my core AI capabilities are not configured. Please check the API key."

C3_Witness == EmptyDocumentsCall /\ ~GOOGLE_API_KEY /\ run.completed

ProviderFaulted == run.provider.kind \in {"build_raises", "HttpError", "Exception"}

\* C4: get_company_web_content never raises; it returns no documents when a
\* credential is absent (and sends no search request then), when the response has
\* no items field or zero items, and when the provider call raises any fault.
C4_RetrieverNeverRaises ==
    (run.op = "get_company_web_content") =>
        /\ ~run.raised /\ run.completed
        /\ (~GOOGLE_CSE_ID \/ ~GOOGLE_API_KEY_FOR_SEARCH) =>
              (run.external_documents = <<>> /\ run.requests = <<>>)
        /\ ProviderFaulted => run.external_documents = <<>>
        /\ (run.provider.kind = "response"
              /\ (~run.provider.has_items \/ run.provider.items = <<>>)) =>
              run.external_documents = <<>>

\* a fault that is no HttpError, with both credentials set
C4_Witness ==
    /\ run.op = "get_company_web_content"
    /\ GOOGLE_CSE_ID /\ GOOGLE_API_KEY_FOR_SEARCH
    /\ run.provider.kind = "Exception"
    /\ run.requests # <<>>
    /\ run.external_documents = <<>>

RagFaulted == run.fault \in SeqToSet(RagSteps)

\* C5: a call of get_rag_answer with documents and the API key configured, in
\* which any step raises, returns the "internal error" string; nothing is raised
\* to the caller.
C5_RagFaultIsCaught ==
    (run.op = "get_rag_answer" /\ GOOGLE_API_KEY
        /\ run.rag_calls[1].external_documents # <<>> /\ RagFaulted) =>
        /\ ~run.raised /\ run.completed
        /\ run.result = "I'm sorry, I encountered an internal error while trying to process your request."

\* the completion call raises after the index was built and queried
C5_Witness ==
    /\ run.op = "get_rag_answer" /\ GOOGLE_API_KEY
    /\ run.fault = "complete"
    /\ run.index # <<>> /\ run.context # {}
    /\ run.result = "I'm sorry, I encountered an internal error while trying to process your request."

\* a collaborator faulted in the turn: the extraction call raised or its output
\* could not be used, the search call raised, or a step of the synthesis raised
FailurePath ==
    /\ run.op = "turn"
    /\ \/ TryExtract(run.extraction).exc # ""
       \/ ProviderFaulted
       \/ RagFaulted

FallbackStrings ==
    {"I couldn't identify a specific company or service in your query. Please ask about a company's services (e.g., 'What are Google's cloud services?').",
     "I couldn't find specific information for that company and service on the web. Could you please rephrase or provide more details?",
     "I'm sorry, I encountered an internal error while trying to process your request."}

\* the rendered entry carries text of a raw fault or raw collaborator output
CarriesRaw(entry) == entry.raw # <<>> \/ entry.err # ""

\* C6 as stated: on a failure path nothing derived from the raw fault or the raw
\* collaborator output is shown to the user.
C6_NothingRawIsShown ==
    FailurePath => \A i \in 1..Len(run.display) : ~CarriesRaw(run.display[i])

\* C6 amended: on a failure path the reply of a turn that completes (the
\* assistant text rendered last and appended to the history) is one of the fixed
\* fallback strings and carries nothing raw; raw material is shown only by the
\* extractor's warning banner (the undecodable output and the decode error), its
\* error banner (the exception text) and the rendering of an uncaught exception.
C6_ReplyIsFixedFallback ==
    FailurePath =>
        /\ run.completed =>
              /\ run.result \in FallbackStrings
              /\ RepliedWith(run.result)
              /\ run.display[Len(run.display)] = Markdown(run.result)
        /\ ~run.completed => run.raised
        /\ \A i \in 1..Len(run.display) :
              CarriesRaw(run.display[i]) =>
                  run.display[i].widget \in {"warning", "error", "exception"}

\* the undecodable output is shown in a warning, the reply is the fixed string
C6_Witness ==
    /\ FailurePath /\ run.completed
    /\ \E i \in 1..Len(run.display) :
          run.display[i].widget = "warning" /\ run.display[i].raw # <<>>
    /\ run.result \in FallbackStrings

BothPresent ==
    /\ run.op = "turn" /\ run.extracted
    /\ Truthy(run.company_name) /\ Truthy(run.service_keywords)
    /\ ~(run.company_name = Str("GREETING") /\ run.service_keywords = Str("GREETING"))
    /\ ~(run.company_name = Str("CHITCHAT") /\ run.service_keywords = Str("CHITCHAT"))

\* C7: in a turn whose extraction yields a company_name and service_keywords that
\* are both present (not null, not empty) and are no greeting or chit-chat pair,
\* get_company_web_content is called exactly once with the two values; if it
\* returns nothing the reply is the fixed "couldn't find specific information"
\* string and get_rag_answer is not called; otherwise get_rag_answer is called
\* exactly once with the retrieved documents and the reply is what it returned.
C7_SearchThenSynthesize ==
    BothPresent =>
        /\ run.retriever_calls = <<[company_name |-> run.company_name,
                                    service_keywords |-> run.service_keywords]>>
        /\ Len(run.requests) <= 1
        /\ run.external_documents = <<>> =>
              /\ RepliedWith("I couldn't find specific information for that company and service on the web. Could you please rephrase or provide more details?")
              /\ run.rag_calls = <<>> /\ run.steps = <<>>
        /\ run.external_documents # <<>> =>
              /\ Len(run.rag_calls) = 1
              /\ run.rag_calls[1].external_documents = run.external_documents
              /\ run.rag_calls[1].user_question = run.prompt
              /\ RepliedWith(run.answer)

\* one document retrieved, the synthesizer's answer is the reply
C7_Witness ==
    /\ BothPresent
    /\ Len(run.external_documents) = 1
    /\ run.fault = "none"
    /\ RepliedWith("Acme offers widgets.")

\* C8: in a turn whose extraction yields a present company_name and a null
\* service_keywords the reply is the clarification prompt naming that company,
\* and neither get_company_web_content nor get_rag_answer is called.
C8_CompanyOnlyAsksForService ==
    (run.op = "turn" /\ run.extracted
        /\ Truthy(run.company_name) /\ run.service_keywords = None) =>
        /\ RepliedWith("I can look up information about " \o run.company_name.val
                       \o ". What specific services or aspects are you interested in?")
        /\ NoSearchNoSynthesis

C8_Witness ==
    /\ run.op = "turn" /\ run.extracted
    /\ run.company_name = Str("Acme") /\ run.service_keywords = None
    /\ RepliedWith("I can look up information about Acme. What specific services or aspects are you interested in?")

\* the extraction step failed, or it yielded null for both fields
ExtractionUnresolved ==
    /\ run.op = "turn"
    /\ \/ TryExtract(run.extraction).exc # ""
       \/ (run.extracted /\ run.company_name = None /\ run.service_keywords = None)

\* C9: whenever the extraction step fails (undecodable output, or any fault of
\* the completion call) or yields null for both fields, extract_query_entities
\* returns (None, None) without raising, the turn completes with the fixed
\* "couldn't identify a specific company or service" reply, and neither
\* get_company_web_content nor get_rag_answer is called.
C9_UnresolvedExtractionIsNotFatal ==
    ExtractionUnresolved =>
        /\ run.extracted /\ ~run.raised
        /\ run.company_name = None /\ run.service_keywords = None
        /\ RepliedWith("I couldn't identify a specific company or service in your query. Please ask about a company's services (e.g., 'What are Google's cloud services?').")
        /\ NoSearchNoSynthesis

\* C10: after n chat inputs the history is the 2n entries user_1, reply_1, ...,
\* user_n, reply_n, the last pair being the input and the reply of the last turn.
C10_HistoryIsTurnComplete ==
    /\ Len(messages) = 2 * turns
    /\ \A i \in 1..turns :
          /\ 2 * i <= Len(messages)
          /\ messages[2 * i - 1].role = "user"
          /\ messages[2 * i].role = "assistant"
    /\ (run.op = "turn") =>
          /\ messages[Len(messages) - 1] = [role |-> "user", content |-> run.prompt]
          /\ messages[Len(messages)] = [role |-> "assistant", content |-> run.result]

\* The extraction call raised json.JSONDecodeError itself: the one case in which
\* an exception leaves extract_query_entities.
ExtractionCallRaisedDecodeError ==
    run.extraction.kind = "raise" /\ run.extraction.exc = "JSONDecodeError"

\* Every other unresolved extraction ends as C9 says.
OtherUnresolvedExtractionsAreNotFatal ==
    ~ExtractionCallRaisedDecodeError => C9_UnresolvedExtractionIsNotFatal

\* The history only grows, one user entry and at most one reply per turn, and
\* the direct calls of the retriever and the synthesizer leave it alone.
HistoryIsAppendOnly ==
    [][/\ Len(messages') >= Len(messages)
       /\ SubSeq(messages', 1, Len(messages)) = messages
       /\ Len(messages') <= Len(messages) + 2
       /\ run'.completed /\ run'.op = "turn" => Len(messages') = Len(messages) + 2]_vars

\* the provider was reached and returned a response that has the key 'items'
ResponseWithItems ==
    /\ run.op = "get_company_web_content"
    /\ GOOGLE_CSE_ID /\ GOOGLE_API_KEY_FOR_SEARCH
    /\ run.provider.kind = "response" /\ run.provider.has_items

\* str(v) of an argument, as an f-string renders it
Rendered(v) == IF v = None THEN "None" ELSE v.val

\* the value a document field takes for an item field
FieldOr(field, placeholder) == IF field = Missing THEN placeholder ELSE field.val

\* C11: with both credentials set and a provider response that has items,
\* get_company_web_content sends exactly one search request, whose query is
\* "<company> <keywords> services reviews official site" and which asks for at
\* most 5 results, and returns one document per item, in the provider's order:
\* the i-th document has the i-th item's snippet as content, its link as source
\* and its title as title ("No Snippet" / "No Link" / "No Title" where the item
\* lacks the field), the company argument as company and the query as
\* search_query.
C11_OneDocumentPerItem ==
    ResponseWithItems =>
        LET query == Rendered(run.company_name) \o " " \o Rendered(run.service_keywords)
                        \o " services reviews official site"
            items == run.provider.items
            docs  == run.external_documents
        IN  /\ Len(run.requests) = 1
            /\ run.requests[1].q = query
            /\ run.requests[1].num <= 5
            /\ ~run.raised
            /\ Len(docs) = Len(items)
            /\ \A i \in 1..Len(items) :
                  /\ docs[i].page_content = FieldOr(items[i].snippet, "No Snippet")
                  /\ docs[i].source = FieldOr(items[i].link, "No Link")
                  /\ docs[i].title = FieldOr(items[i].title, "No Title")
                  /\ docs[i].company = run.company_name
                  /\ docs[i].search_query = query

\* a full item followed by an item that lacks all three fields
C11_Witness ==
    /\ ResponseWithItems
    /\ run.provider.items = <<FullItem, BareItem>>
    /\ Len(run.external_documents) = 2
    /\ run.external_documents[1].source = "http://acme.example/widgets"
    /\ run.external_documents[2].page_content = "No Snippet"
    /\ run.external_documents[2].company = Str("Acme")

\* a round trip in which the index was queried
RoundTripRanked ==
    /\ run.op = "round_trip"
    /\ run.fault = "none"
    /\ run.index # <<>>

\* the entries this call added to the index, one per document handed in
OwnEntries == {e \in SeqToSet(run.index) : e.store = stores}

\* C12 as stated: in a round trip (a document sequence of up to 5 documents that
\* the retriever produced, the question being the title of one of them), every
\* document of the sequence whose title is the question is among the top-3
\* documents selected as context, the embedding being one under which equal
\* texts are the most similar.
C12_TitleMatchIsInTopThree ==
    RoundTripRanked =>
        \A e \in OwnEntries : e.doc.title = run.prompt => e \in run.context

\* C12 amended: in such a round trip the document whose title is the question is
\* among the top-3 selected whenever the index holds at most 3 entries, or the
\* document's content (its snippet, the text that is embedded) is the question
\* as well and at most 3 entries of the index have that content; when more than
\* 3 entries have it, the 3 selected all have it.  A document of which only the
\* title is the question need not be selected.
C12_ContentMatchIsInTopThree ==
    RoundTripRanked =>
        LET same == {e \in SeqToSet(run.index) : e.doc.page_content = run.prompt}
        IN  /\ Cardinality(run.context) = Min(3, Len(run.index))
            /\ run.context \subseteq SeqToSet(run.index)
            /\ \A e \in OwnEntries :
                  (e.doc.title = run.prompt
                     /\ \/ Len(run.index) <= 3
                        \/ (e.doc.page_content = run.prompt /\ Cardinality(same) <= 3))
                  => e \in run.context
            /\ Cardinality(same) > 3 => run.context \subseteq same

\* four documents, the question is the title and the content of the first: it
\* is selected, one of the others is not
C12_Witness ==
    /\ RoundTripRanked
    /\ Len(run.index) > 3
    /\ \E e \in OwnEntries :
          /\ e.doc.title = run.prompt /\ e.doc.page_content = run.prompt
          /\ e \in run.context
    /\ \E e \in OwnEntries : e \notin run.context

\* a turn in which get_rag_answer was called
ReachedSynthesis == run.op = "turn" /\ run.rag_calls # <<>>

\* the entries the history log held when the chat input of the turn arrived
PriorMessages ==
    SubSeq(messages, 1, Len(messages) - (IF run.completed THEN 2 ELSE 1))

\* C13: in every turn that reaches synthesis the history argument passed to
\* get_rag_answer is exactly the entries that precede the current user
\* utterance, which are completed user/assistant pairs; the current question is
\* passed as the question argument only and is not the last history entry.
C13_HistoryIsPriorTurnsOnly ==
    ReachedSynthesis =>
        LET chat_history == run.rag_calls[1].chat_history
        IN  /\ run.rag_calls[1].user_question = run.prompt
            /\ Len(chat_history) = Len(PriorMessages)
            /\ \A i \in 1..Len(chat_history) :
                  /\ chat_history[i].content = PriorMessages[i].content
                  /\ chat_history[i].type = (IF i % 2 = 1 THEN "human" ELSE "ai")
            /\ Len(chat_history) % 2 = 0
            /\ \/ chat_history = <<>>
               \/ chat_history[Len(chat_history)] # [type |-> "human", content |-> run.prompt]

\* What is passed: the entries logged before the call, the current user
\* utterance among them as the last one.
HistoryEndsWithCurrentQuestion ==
    ReachedSynthesis =>
        LET chat_history == run.rag_calls[1].chat_history
        IN  /\ Len(chat_history) = Len(PriorMessages) + 1
            /\ \A i \in 1..Len(PriorMessages) :
                  /\ chat_history[i].content = PriorMessages[i].content
                  /\ chat_history[i].type =
                        (IF PriorMessages[i].role = "user" THEN "human" ELSE "ai")
            /\ chat_history[Len(chat_history)] = [type |-> "human", content |-> run.prompt]

\* a field extraction returned that is neither null nor the empty string
Present(v) == v # None /\ v # Str("")

\* extraction returned both fields present and no greeting or chit-chat pair
Searchable ==
    /\ run.extracted
    /\ Present(run.company_name) /\ Present(run.service_keywords)
    /\ ~(run.company_name = Str("GREETING") /\ run.service_keywords = Str("GREETING"))
    /\ ~(run.company_name = Str("CHITCHAT") /\ run.service_keywords = Str("CHITCHAT"))

\* C14: a turn calls get_company_web_content (attempts a search) if and only if
\* extraction returned a company_name and a service_keywords that are both
\* neither null nor empty and are not the pair (GREETING, GREETING) or
\* (CHITCHAT, CHITCHAT).  The call is made with the two values as they are, a
\* marker in one field or two different markers included, and with both search
\* credentials set the one request built carries them in its query.  A present
\* company with an absent or empty service_keywords is echoed in the
\* clarification prompt, marker or not; an absent or empty company_name gets the
\* "couldn't identify" reply.
C14_SearchIffBothPresent ==
    (run.op = "turn") =>
        /\ (run.retriever_calls # <<>>) <=> Searchable
        /\ run.requests # <<>> => Searchable
        /\ Searchable =>
              /\ run.retriever_calls = <<[company_name |-> run.company_name,
                                          service_keywords |-> run.service_keywords]>>
              /\ (GOOGLE_CSE_ID /\ GOOGLE_API_KEY_FOR_SEARCH
                    /\ run.provider.kind # "build_raises") =>
                    run.requests = <<[q |-> run.company_name.val \o " "
                                             \o run.service_keywords.val
                                             \o " services reviews official site",
                                      num |-> 5]>>
        /\ (run.extracted /\ Present(run.company_name) /\ ~Present(run.service_keywords)) =>
              /\ RepliedWith("I can look up information about " \o run.company_name.val
                             \o ". What specific services or aspects are you interested in?")
              /\ NoSearchNoSynthesis
        /\ (run.extracted /\ ~Present(run.company_name)) =>
              /\ RepliedWith("I couldn't identify a specific company or service in your query. Please ask about a company's services (e.g., 'What are Google's cloud services?').")
              /\ NoSearchNoSynthesis

\* (CHITCHAT, "") was answered with the clarification prompt naming CHITCHAT, then
\* (GREETING, CHITCHAT) is searched for
C14_Witness ==
    /\ run.op = "turn" /\ turns = 2 /\ Len(messages) >= 3
    /\ messages[2].content = "I can look up information about CHITCHAT. What specific services or aspects are you interested in?"
    /\ run.company_name = Str("GREETING") /\ run.service_keywords = Str("CHITCHAT")
    /\ Len(run.requests) = 1
    /\ run.requests[1].q = "GREETING CHITCHAT services reviews official site"

====
